---------------------------- MODULE Spec2Model ----------------------------
(***************************************************************************)
(* n8n backup and restore scripts: the two export tools                    *)
(* (download_n8n_workflows.py, n8n_backup_onefile.py) and the restore tool *)
(* (restore_n8n_workflows.py), run against a remote n8n instance.          *)
(*                                                                         *)
(* Strings are sequences of one-character strings, so that sanitizing,     *)
(* stripping and joining are computed and not assumed.  The remote         *)
(* instance is the environment: its state is the list of workflows it      *)
(* holds, and every request may fail with a RequestException.              *)
(*                                                                         *)
(* Modelling decisions:                                                    *)
(*  - the remote changes only through the POSTs and PUTs of the restore    *)
(*    tool; it pages its listing by min(limit, pageCap) and its cursor is  *)
(*    the number of the next page;                                         *)
(*  - the creation endpoint rejects a body without name or nodes (the      *)
(*    fields clean_workflow_for_api marks "Required");                     *)
(*  - the clock does not advance within one restore run;                   *)
(*  - a text on disk is a JSON document ([json |-> value]) or not JSON;    *)
(*    documents are dicts;                                                 *)
(*  - a failed file write leaves no file behind;                           *)
(*  - a path is the list of its components below backup_dir, joined as     *)
(*    pathlib joins them (an absolute folder path replaces backup_dir) and *)
(*    resolved as the file system resolves them (".." is the parent);      *)
(*  - creating the folder of a pair may fail with OSError, like any other  *)
(*    file system call.                                                    *)
(***************************************************************************)
EXTENDS Integers, Sequences, FiniteSets, TLC

VARIABLES
    tool,           \* which script runs: "download", "onefile" or "restore"
    pc,             \* position of the running script
    remote,         \* the workflows the remote instance holds, in listing order
    pageCap,        \* the largest page the remote returns
    requests,       \* params of the listing GETs issued, in order
    responses,      \* the listing responses received, in order
    listFailed,     \* a listing GET raised RequestException
    all_workflows,  \* what get_all_workflows returned
    existing,       \* what get_existing_workflows returned (name -> id)
    active_workflows, \* organize: the workflows that are not archived
    oi,             \* organize: number of active workflows already placed
    projectOf,      \* organize: workflow id -> sanitized project name used
    organized,      \* the dict folder_path -> workflows, in insertion order
    di,             \* download: number of (folder, workflow) pairs handled
    stats,          \* the run's counters
    files,          \* the snapshot directory: path -> text written
    writes,         \* log of the (folder, workflow id) pairs written with success
    details,        \* log of the detail GETs issued, in order
    manifest,       \* index.json and README.md were written
    exitCode,       \* the process's exit status once it ended (-1: running)
    failures,       \* environment failures injected so far
    mode,           \* restore: "skip", "update" or "rename"
    dry_run,        \* restore: the dry_run argument
    workflow_files, \* restore: what find_backup_files returned
    ri,             \* restore: number of files already processed
    rstats,         \* restore: the stats dict, with its results list
    posts,          \* restore: the POSTs issued in this run, in order
    puts,           \* restore: the PUTs issued in this run, in order
    remote0,        \* the remote's workflows when the current run started
    now,            \* the clock, in seconds
    prev,           \* restore: mode, dry_run and stats of the runs before
    name_arg,       \* sanitize_filename: the name it is first called with
    sanitized       \* sanitize_filename: what it returned, call after call

listVars == <<requests, responses, listFailed, all_workflows, existing>>

exportVars == <<active_workflows, oi, projectOf, organized, di, stats, files,
                writes, details, manifest, exitCode>>

restoreVars == <<mode, dry_run, workflow_files, ri, rstats, posts, puts,
                 remote0, now, prev>>

sanitizeVars == <<name_arg, sanitized>>

vars == <<tool, pc, remote, pageCap, listVars, exportVars, failures,
          restoreVars, sanitizeVars>>

-----------------------------------------------------------------------------
(* Bounds of the model *)

MaxListed == 3      \* workflows on the remote in the listing specification
MaxPageCap == 2     \* largest page size the remote is configured to return

(* Program constants *)

ListLimit == 100    \* params = {'limit': 100}
NoCursor == 0       \* cursor = None; a falsy nextCursor

-----------------------------------------------------------------------------
(* Generic helpers *)

Min(a, b) == IF a < b THEN a ELSE b

Range(s) == {s[i] : i \in 1..Len(s)}

RECURSIVE Concat(_)
Concat(ss) == IF ss = <<>> THEN <<>> ELSE Head(ss) \o Concat(Tail(ss))

EmptyMap == <<>>    \* the empty dict {}; its DOMAIN is {}

-----------------------------------------------------------------------------
(* The remote's listing endpoint: GET /api/v1/workflows?limit=..&cursor=.. *)

NumPages(list, size) ==
    IF Len(list) = 0 THEN 1 ELSE (Len(list) + size - 1) \div size

\* The response to one listing request: the page the cursor names (the first
\* page without one), and the cursor of the page after it.
ListResponse(list, cap, params) ==
    LET size == Min(params.limit, cap)
        k    == IF params.cursor = NoCursor THEN 1 ELSE params.cursor
    IN  [data       |-> SubSeq(list, (k - 1) * size + 1, Min(k * size, Len(list))),
         nextCursor |-> IF k < NumPages(list, size) THEN k + 1 ELSE NoCursor]

-----------------------------------------------------------------------------
(* get_all_workflows (both export tools) and get_existing_workflows *)

\* params = {'limit': 100}; if cursor: params['cursor'] = cursor
ListParams(cursor) == [limit |-> ListLimit, cursor |-> cursor]

\* faulty variant: all_workflows = workflows: each page replaces the ones before it
ExtendWorkflowsReplacing(acc, data) == data

\* all_workflows.extend(workflows)
ExtendWorkflows(acc, data) == acc \o data

\* except RequestException: the downloader breaks out of the loop and
\* returns what it has; the one-file backup returns [].
OnListError(t, acc) == IF t = "download" THEN acc ELSE <<>>

\* The while loop of get_all_workflows.  failAt is the number of the request
\* that raises (0: none does).
RECURSIVE GetAllWorkflowsFrom(_, _, _, _, _, _, _, _)
GetAllWorkflowsFrom(t, list, cap, failAt, cursor, acc, reqs, resps) ==
    LET params == ListParams(cursor)
        reqs2  == Append(reqs, params)
    IN  IF Len(reqs2) = failAt
        THEN [result |-> OnListError(t, acc), requests |-> reqs2,
              responses |-> resps, failed |-> TRUE]
        ELSE LET data == ListResponse(list, cap, params)
                 acc2 == ExtendWorkflows(acc, data.data)
                 resps2 == Append(resps, data)
             IN  IF data.nextCursor = NoCursor
                 THEN [result |-> acc2, requests |-> reqs2,
                       responses |-> resps2, failed |-> FALSE]
                 ELSE GetAllWorkflowsFrom(t, list, cap, failAt,
                                          data.nextCursor, acc2, reqs2, resps2)

GetAllWorkflows(t, list, cap, failAt) ==
    GetAllWorkflowsFrom(t, list, cap, failAt, NoCursor, <<>>, <<>>, <<>>)

\* for workflow in data['data']: if name and wf_id: existing[name] = wf_id
RECURSIVE RecordExisting(_, _)
RecordExisting(map, data) ==
    IF data = <<>> THEN map
    ELSE LET w == Head(data)
             m == IF w.name # <<>> /\ w.id # 0
                  THEN [n \in DOMAIN map \cup {w.name} |->
                            IF n = w.name THEN w.id ELSE map[n]]
                  ELSE map
         IN  RecordExisting(m, Tail(data))

\* faulty variant: the names recorded before the failure are returned
OnExistingErrorPartial(map) == map

\* except RequestException: return {}
OnExistingError(map) == EmptyMap

RECURSIVE GetExistingFrom(_, _, _, _, _, _, _)
GetExistingFrom(list, cap, failAt, cursor, map, reqs, resps) ==
    LET params == ListParams(cursor)
        reqs2  == Append(reqs, params)
    IN  IF Len(reqs2) = failAt
        THEN [result |-> OnExistingError(map), requests |-> reqs2,
              responses |-> resps, failed |-> TRUE]
        ELSE LET data == ListResponse(list, cap, params)
                 map2 == RecordExisting(map, data.data)
                 resps2 == Append(resps, data)
             IN  IF data.nextCursor = NoCursor
                 THEN [result |-> map2, requests |-> reqs2,
                       responses |-> resps2, failed |-> FALSE]
                 ELSE GetExistingFrom(list, cap, failAt, data.nextCursor,
                                      map2, reqs2, resps2)

GetExistingWorkflows(list, cap, failAt) ==
    GetExistingFrom(list, cap, failAt, NoCursor, EmptyMap, <<>>, <<>>)


-----------------------------------------------------------------------------
(* Dictionaries as returned by the API: records whose keys may be absent *)

\* d.get(key, default)
Get(d, key, default) == IF key \in DOMAIN d THEN d[key] ELSE default

\* A workflow as the remote holds it.  The listing and the detail endpoint
\* both return it; `shared` and `nodes` matter only in the detail.
Workflow(id, shape) ==
    [id |-> id, name |-> shape.name, isArchived |-> shape.isArchived,
     tags |-> shape.tags, shared |-> shape.shared, nodes |-> shape.nodes]

\* The remotes of up to n workflows with ids 1..n, drawn from the shapes.
Remotes(shapes, n) ==
    UNION {{[i \in 1..k |-> Workflow(i, f[i])] : f \in [1..k -> shapes]} : k \in 0..n}

\* The export variables before an export run starts.
ExportIdle ==
    /\ active_workflows = <<>>
    /\ oi = 0
    /\ projectOf = EmptyMap
    /\ organized = <<>>
    /\ di = 0
    /\ stats = [total |-> 0, success |-> 0, failed |-> 0]
    /\ files = EmptyMap
    /\ writes = <<>>
    /\ details = <<>>
    /\ manifest = FALSE
    /\ exitCode = -1

\* No call of sanitize_filename is followed.
SanitizeIdle ==
    /\ name_arg = <<>>
    /\ sanitized = <<>>

\* The restore variables before a restore run starts.
RestoreIdle ==
    /\ mode = "skip"
    /\ dry_run = FALSE
    /\ workflow_files = <<>>
    /\ ri = 0
    /\ rstats = [total |-> 0, created |-> 0, updated |-> 0, skipped |-> 0,
                 failed |-> 0, results |-> <<>>]
    /\ posts = <<>>
    /\ puts = <<>>
    /\ remote0 = remote
    /\ now = 1
    /\ prev = <<>>

-----------------------------------------------------------------------------
(* Specification SpecList: one listing fetch by one of the three tools *)

ListShapes ==
    [name : {<<"a">>, <<"b">>}, isArchived : {FALSE}, tags : {<<>>},
     shared : {<<>>}, nodes : {"n1"}]

InitList ==
    /\ tool = "none"
    /\ pc = "idle"
    /\ remote \in Remotes(ListShapes, MaxListed)
    /\ pageCap \in 1..MaxPageCap
    /\ requests = <<>>
    /\ responses = <<>>
    /\ listFailed = FALSE
    /\ all_workflows = <<>>
    /\ existing = EmptyMap
    /\ ExportIdle
    /\ RestoreIdle
    /\ failures = 0
    /\ SanitizeIdle

\* N8NWorkflowDownloader.get_all_workflows / N8NBackup.get_all_workflows
ListExport(t) ==
    /\ pc = "idle"
    /\ \E failAt \in 0..MaxListed :
         LET r == GetAllWorkflows(t, remote, pageCap, failAt)
         IN  /\ r.failed = (failAt # 0)
             /\ tool' = t
             /\ requests' = r.requests
             /\ responses' = r.responses
             /\ listFailed' = r.failed
             /\ all_workflows' = r.result
    /\ pc' = "listed"
    /\ UNCHANGED <<remote, pageCap, sanitizeVars, existing, exportVars,
                   failures, restoreVars>>

ListDownload == ListExport("download")

ListBackup == ListExport("onefile")

\* N8NWorkflowRestore.get_existing_workflows
ListExisting ==
    /\ pc = "idle"
    /\ \E failAt \in 0..MaxListed :
         LET r == GetExistingWorkflows(remote, pageCap, failAt)
         IN  /\ r.failed = (failAt # 0)
             /\ tool' = "restore"
             /\ requests' = r.requests
             /\ responses' = r.responses
             /\ listFailed' = r.failed
             /\ existing' = r.result
    /\ pc' = "listed"
    /\ UNCHANGED <<remote, pageCap, sanitizeVars, all_workflows, exportVars,
                   failures, restoreVars>>

NextList == ListDownload \/ ListBackup \/ ListExisting

SpecList == InitList /\ [][NextList]_vars

-----------------------------------------------------------------------------
(* Claims about the listing fetchers *)

\* C1 (as stated): whenever a page request of a listing fetch fails, on the
\* first page or after successful pages, the fetcher returns the empty
\* result: nothing from the pages already received is returned.
C1_FailedFetchReturnsEmpty ==
    (pc = "listed" /\ listFailed) =>
        (all_workflows = <<>> /\ DOMAIN existing = {})

\* C6: when no request fails, get_all_workflows of either export tool returns
\* the concatenation of the data arrays of the pages in the order received;
\* the first request carries no cursor, each later one the nextCursor of the
\* response before it, every request has limit 100, and the loop stops at the
\* first response without a nextCursor.
C6_ListAllConcatenatesPages ==
    (pc = "listed" /\ tool \in {"download", "onefile"} /\ ~listFailed) =>
        /\ all_workflows = Concat([i \in 1..Len(responses) |-> responses[i].data])
        /\ all_workflows = remote
        /\ Len(requests) = Len(responses)
        /\ requests[1].cursor = NoCursor
        /\ \A i \in 1..Len(requests) : requests[i].limit = 100
        /\ \A i \in 2..Len(requests) :
             requests[i].cursor = responses[i - 1].nextCursor
        /\ \A i \in 1..Len(responses) :
             (responses[i].nextCursor = NoCursor) <=> (i = Len(responses))

C6_Witness ==
    /\ pc = "listed" /\ tool = "download" /\ ~listFailed
    /\ Len(responses) >= 3
    /\ Len(all_workflows) = 3
    /\ all_workflows[1].name # all_workflows[2].name

-----------------------------------------------------------------------------
(* Strings: sequences of characters *)

\* invalid_chars = '<>:"/\\|?*'
InvalidChars == <<"<", ">", ":", "\"", "/", "\\", "|", "?", "*">>

\* the characters str.strip() removes
Whitespace == {" ", "\t", "\n", "\r"}

\* faulty variant: the result of name.replace is dropped
ReplaceDropped(name, char, by) == name

\* name.replace(char, '_')
Replace(name, char, by) ==
    [i \in 1..Len(name) |-> IF name[i] = char THEN by ELSE name[i]]

RECURSIVE LStrip(_)
LStrip(s) ==
    IF s # <<>> /\ Head(s) \in Whitespace THEN LStrip(Tail(s)) ELSE s

RECURSIVE RStrip(_)
RStrip(s) ==
    IF s # <<>> /\ s[Len(s)] \in Whitespace
    THEN RStrip(SubSeq(s, 1, Len(s) - 1)) ELSE s

\* name.strip()
Strip(s) == RStrip(LStrip(s))

\* for char in invalid_chars: name = name.replace(char, '_')
RECURSIVE ReplaceAll(_, _)
ReplaceAll(name, chars) ==
    IF chars = <<>> THEN name
    ELSE ReplaceAll(Replace(name, Head(chars), "_"), Tail(chars))

\* sanitize_filename
SanitizeFilename(name) == Strip(ReplaceAll(name, InvalidChars))

\* name.split(sep)[0]
RECURSIVE SplitFirst(_, _)
SplitFirst(name, sep) ==
    IF name = <<>> \/ Head(name) = sep THEN <<>>
    ELSE <<Head(name)>> \o SplitFirst(Tail(name), sep)

UnknownProject ==
    <<"U", "n", "k", "n", "o", "w", "n", " ", "P", "r", "o", "j", "e", "c", "t">>

NoTag == <<"N", "o", " ", "T", "a", "g">>

Untagged == <<"U", "n", "t", "a", "g", "g", "e", "d">>

Unnamed == <<"U", "n", "n", "a", "m", "e", "d">>

DotJson == <<".", "j", "s", "o", "n">>

\* str(workflow_id) inside an f-string
IdStr(id) == <<ToString(id)>>

-----------------------------------------------------------------------------
(* The remote's detail endpoint: GET /api/v1/workflows/{id} *)

\* An optional value: <<>> is None, <<x>> is x.
None == <<>>

\* get_workflow_details: the workflow, or None when the request raised
GetWorkflowDetails(list, workflow_id, ok) ==
    IF ok /\ \E i \in 1..Len(list) : list[i].id = workflow_id
    THEN <<list[CHOOSE i \in 1..Len(list) : list[i].id = workflow_id]>>
    ELSE None

-----------------------------------------------------------------------------
(* organize_by_tags / organize_by_folders *)

\* the project name read from the detail of a workflow
GetWorkflowProject(workflow_data) ==
    IF workflow_data = None THEN UnknownProject
    ELSE LET shared == Get(workflow_data[1], "shared", <<>>)
         IN  IF shared = <<>> THEN UnknownProject
             ELSE LET project == Get(shared[1], "project", EmptyMap)
                      project_name == Get(project, "name", UnknownProject)
                      project_type == Get(project, "type", "")
                  IN  IF project_type = "personal" /\ "<" \in Range(project_name)
                      THEN Strip(SplitFirst(project_name, "<"))
                      ELSE project_name

\* faulty variant: no filter: archived workflows stay in the list
KeepAll(workflow_list) == workflow_list

\* active_workflows = [w for w in workflow_list if not w.get('isArchived', False)]
ActiveWorkflows(workflow_list) ==
    SelectSeq(workflow_list, LAMBDA w : ~Get(w, "isArchived", FALSE))

\* faulty variant: organized[folder_path] = [workflow]: the bucket is overwritten
PutInFolder(org, folder_path, workflow) ==
    IF \E i \in 1..Len(org) : org[i].folder = folder_path
    THEN [i \in 1..Len(org) |->
            IF org[i].folder = folder_path
            THEN [org[i] EXCEPT !.workflows = <<workflow>>]
            ELSE org[i]]
    ELSE Append(org, [folder |-> folder_path, workflows |-> <<workflow>>])

\* if folder_path not in organized: organized[folder_path] = []
\* organized[folder_path].append(workflow)
AddToFolder(org, folder_path, workflow) ==
    IF \E i \in 1..Len(org) : org[i].folder = folder_path
    THEN [i \in 1..Len(org) |->
            IF org[i].folder = folder_path
            THEN [org[i] EXCEPT !.workflows = Append(@, workflow)]
            ELSE org[i]]
    ELSE Append(org, [folder |-> folder_path, workflows |-> <<workflow>>])

\* tag_name = tag.get('name', 'Untagged')
TagName(tag) == Get(tag, "name", Untagged)

\* folder_path = f"{project_name_safe}/{tag_name_safe}"
TagFolder(project_name_safe, tag) ==
    project_name_safe \o <<"/">> \o SanitizeFilename(TagName(tag))

\* folder_path = f"{project_name_safe}/No Tag"
NoTagFolder(project_name_safe) == project_name_safe \o <<"/">> \o NoTag

\* for tag in tags: ... organized[folder_path].append(workflow)
RECURSIVE AddPerTag(_, _, _, _)
AddPerTag(org, project_name_safe, tags, workflow) ==
    IF tags = <<>> THEN org
    ELSE AddPerTag(AddToFolder(org, TagFolder(project_name_safe, Head(tags)), workflow),
                   project_name_safe, Tail(tags), workflow)

\* the body of the loop over active_workflows, for one workflow
OrganizeOne(org, workflow, project_name) ==
    LET project_name_safe == SanitizeFilename(project_name)
        tags == Get(workflow, "tags", <<>>)
    IN  IF tags # <<>>
        THEN AddPerTag(org, project_name_safe, tags, workflow)
        ELSE AddToFolder(org, NoTagFolder(project_name_safe), workflow)

\* the (folder_path, workflow) pairs in the order download_all visits them
DownloadPairs(org) ==
    Concat([i \in 1..Len(org) |->
              [j \in 1..Len(org[i].workflows) |->
                  [folder |-> org[i].folder, workflow |-> org[i].workflows[j]]]])

-----------------------------------------------------------------------------
(* download_workflow: one (folder_path, workflow) pair written to disk *)

\* d[key] = value
MapPut(map, key, value) ==
    [k \in DOMAIN map \cup {key} |-> IF k = key THEN value ELSE map[k]]

\* json.dump(value, f): the text of a JSON document holding the value
JsonDump(value) == [json |-> value]

\* filename = f"{sanitized}.json" (downloader), f"{sanitized}_{workflow_id}.json"
\* (one-file backup)
FileName(t, workflow) ==
    LET safe_name == SanitizeFilename(Get(workflow, "name", Unnamed))
    IN  IF t = "download"
        THEN safe_name \o DotJson
        ELSE safe_name \o <<"_">> \o IdStr(workflow.id) \o DotJson

\* the components of a path string: split at "/", empty and "." components
\* dropped, as pathlib does
RECURSIVE SplitPath(_, _)
SplitPath(str, part) ==
    LET parts == IF part = <<>> \/ part = <<".">> THEN <<>> ELSE <<part>>
    IN  IF str = <<>> THEN parts
        ELSE IF Head(str) = "/" THEN parts \o SplitPath(Tail(str), <<>>)
        ELSE SplitPath(Tail(str), Append(part, Head(str)))

\* backup_dir / folder_path: the components below backup_dir; a folder_path
\* that starts with "/" is absolute and replaces backup_dir (first
\* component <<"/">>)
UnderBackupDir(folder_path) ==
    IF folder_path # <<>> /\ Head(folder_path) = "/"
    THEN <<<<"/">>>> \o SplitPath(folder_path, <<>>)
    ELSE SplitPath(folder_path, <<>>)

\* filepath = backup_dir / folder_path / filename
FilePath(t, folder_path, workflow) ==
    Append(UnderBackupDir(folder_path), FileName(t, workflow))

\* the document written: the detail as returned (downloader), or the detail
\* under 'workflow' beside a 'metadata' envelope (one-file backup)
FileDocument(t, workflow, workflow_data) ==
    IF t = "download"
    THEN workflow_data
    ELSE [metadata |->
            [workflow_id |-> workflow.id,
             workflow_name |-> Get(workflow, "name", Unnamed),
             archived |-> Get(workflow, "isArchived", FALSE),
             tags |-> [i \in 1..Len(Get(workflow, "tags", <<>>)) |->
                          Get(workflow.tags[i], "name", None)]],
          workflow |-> workflow_data]

-----------------------------------------------------------------------------
(* Specification SpecExport: one run of download_all / N8NBackup.run *)

MaxWorkflows == 2   \* workflows on the remote in an export run
MaxFailures == 1    \* failed requests and failed writes in one run

TagColon == [name |-> <<"x", ":">>]

TagUnderscore == [name |-> <<"x", "_">>]

TagNoName == [id |-> "t3"]

\* the tag lists of a workflow: no tag, one tag, two tags whose names
\* sanitize to the same string, two tags whose labels differ
TagLists ==
    {<<>>, <<TagColon>>, <<TagColon, TagUnderscore>>, <<TagColon, TagNoName>>}

PersonalProject ==
    [project |-> [name |-> <<"P", " ", "<", "e", ">">>, type |-> "personal"]]

ExportShapes ==
    [name : {<<"a">>}, isArchived : {FALSE}, tags : TagLists,
     shared : {<<PersonalProject>>}, nodes : {"n1"}]
    \cup
    [name : {<<"a", "/">>}, isArchived : {FALSE}, tags : {<<>>},
     shared : {<<PersonalProject>>}, nodes : {"n1"}]
    \cup
    [name : {<<"a">>}, isArchived : {FALSE}, tags : {<<>>},
     shared : {<<>>}, nodes : {"n1"}]
    \cup
    [name : {<<"a">>}, isArchived : {TRUE}, tags : {<<TagColon, TagNoName>>},
     shared : {<<PersonalProject>>}, nodes : {"n1"}]

InitExport ==
    /\ tool = "none"
    /\ pc = "idle"
    /\ remote \in Remotes(ExportShapes, MaxWorkflows)
    /\ pageCap = 1
    /\ requests = <<>>
    /\ responses = <<>>
    /\ listFailed = FALSE
    /\ all_workflows = <<>>
    /\ existing = EmptyMap
    /\ ExportIdle
    /\ RestoreIdle
    /\ failures = 0
    /\ SanitizeIdle

\* download_all / run, up to the organizing: the backup directory, the
\* listing, the exit on an empty listing, the archived filter
ExportStart(t) ==
    /\ pc = "idle"
    /\ \E failAt \in 0..(Len(remote) + 1) :
         LET r == GetAllWorkflows(t, remote, pageCap, failAt)
             active == ActiveWorkflows(r.result)
         IN  /\ r.failed = (failAt # 0)
             /\ r.failed => failures < MaxFailures
             /\ failures' = IF r.failed THEN failures + 1 ELSE failures
             /\ tool' = t
             /\ requests' = r.requests
             /\ responses' = r.responses
             /\ listFailed' = r.failed
             /\ all_workflows' = r.result
             /\ IF r.result = <<>>
                THEN /\ pc' = "exit"
                     /\ exitCode' = IF t = "onefile" THEN 1 ELSE 0
                     /\ UNCHANGED <<active_workflows, stats>>
                ELSE /\ pc' = IF active = <<>> THEN "index" ELSE "organize"
                     /\ active_workflows' = active
                     /\ stats' = [total |-> Len(r.result), success |-> 0, failed |-> 0]
                     /\ UNCHANGED exitCode
    /\ UNCHANGED <<remote, pageCap, sanitizeVars, existing, oi, projectOf,
                   organized, di, files, writes, details, manifest,
                   restoreVars>>

StartDownload == ExportStart("download")

StartBackup == ExportStart("onefile")

\* one iteration of the loop of organize_by_tags / organize_by_folders
OrganizeStep ==
    /\ pc = "organize"
    /\ \E ok \in BOOLEAN :
         LET workflow == active_workflows[oi + 1]
             workflow_data == GetWorkflowDetails(remote, workflow.id, ok)
             project_name == GetWorkflowProject(workflow_data)
         IN  /\ ~ok => failures < MaxFailures
             /\ failures' = IF ok THEN failures ELSE failures + 1
             /\ organized' = OrganizeOne(organized, workflow, project_name)
             /\ projectOf' = MapPut(projectOf, workflow.id,
                                    SanitizeFilename(project_name))
             /\ details' = Append(details, [by |-> "organize", pair |-> 0,
                                            id |-> workflow.id, ok |-> ok])
    /\ oi' = oi + 1
    /\ pc' = IF oi + 1 = Len(active_workflows) THEN "download" ELSE "organize"
    /\ UNCHANGED <<tool, remote, pageCap, sanitizeVars, listVars,
                   active_workflows, di, stats, files, writes, manifest,
                   exitCode, restoreVars>>

\* faulty variant: a pair that failed is not counted
CountSuccessOnly(st, downloaded) ==
    IF downloaded THEN [st EXCEPT !.success = @ + 1] ELSE st

\* if self.download_workflow(...): stats['success'] += 1
\* else: stats['failed'] += 1
CountDownload(st, downloaded) ==
    IF downloaded THEN [st EXCEPT !.success = @ + 1]
    ELSE [st EXCEPT !.failed = @ + 1]

\* one call of download_workflow from the loops of download_all / run
DownloadStep ==
    /\ pc = "download"
    /\ LET pair == DownloadPairs(organized)[di + 1]
           last == di + 1 = Len(DownloadPairs(organized))
       IN  \E outcome \in {"ok", "detail_failed", "mkdir_failed", "write_failed"} :
             LET workflow_data ==
                     GetWorkflowDetails(remote, pair.workflow.id,
                                        outcome # "detail_failed")
                 filepath == FilePath(tool, pair.folder, pair.workflow)
             IN  /\ outcome # "ok" => failures < MaxFailures
                 /\ failures' = IF outcome = "ok" THEN failures ELSE failures + 1
                 /\ details' = Append(details,
                                  [by |-> "download", pair |-> di + 1,
                                   id |-> pair.workflow.id,
                                   ok |-> workflow_data # None])
                 /\ IF outcome = "mkdir_failed"
                    THEN \* mkdir is outside the try: the exception ends the run
                         /\ pc' = "crashed"
                         /\ exitCode' = 1
                         /\ UNCHANGED <<di, stats, files, writes>>
                    ELSE /\ pc' = IF last THEN "index" ELSE "download"
                         /\ di' = di + 1
                         /\ UNCHANGED exitCode
                         /\ IF outcome = "ok" /\ workflow_data # None
                            THEN /\ files' = MapPut(files, filepath,
                                         JsonDump(FileDocument(tool, pair.workflow,
                                                               workflow_data[1])))
                                 /\ writes' = Append(writes,
                                         [folder |-> pair.folder,
                                          id |-> pair.workflow.id,
                                          pair |-> di + 1])
                                 /\ stats' = CountDownload(stats, TRUE)
                            ELSE /\ stats' = CountDownload(stats, FALSE)
                                 /\ UNCHANGED <<files, writes>>
    /\ UNCHANGED <<tool, remote, pageCap, sanitizeVars, listVars,
                   active_workflows, oi, projectOf, organized, manifest,
                   restoreVars>>

\* create_index_file / create_index, and the return of the run
CreateIndex ==
    /\ pc = "index"
    /\ manifest' = TRUE
    /\ pc' = "done"
    /\ exitCode' = 0
    /\ UNCHANGED <<tool, remote, pageCap, sanitizeVars, listVars,
                   active_workflows, oi, projectOf, organized, di, stats,
                   files, writes, details, failures, restoreVars>>

NextExport ==
    StartDownload \/ StartBackup \/ OrganizeStep \/ DownloadStep \/ CreateIndex

SpecExport == InitExport /\ [][NextExport]_vars

-----------------------------------------------------------------------------
(* Claims about the organizer and the writer *)

\* organize_by_tags / organize_by_folders has returned
Organized == pc \in {"download", "index", "done", "crashed"}

\* the folder paths of the buckets that hold the workflow
BucketsOf(id) ==
    {organized[i].folder : i \in
        {k \in 1..Len(organized) :
            \E j \in 1..Len(organized[k].workflows) : organized[k].workflows[j].id = id}}

\* how many times the buckets hold the workflow, all buckets together
PlacementsOf(id) ==
    Cardinality({ij \in UNION {{<<i, j>> : j \in 1..Len(organized[i].workflows)} :
                                  i \in 1..Len(organized)} :
                    organized[ij[1]].workflows[ij[2]].id = id})

NotArchived(list) ==
    {list[i] : i \in {k \in 1..Len(list) : ~list[k].isArchived}}

\* C3 (as stated): every entity of the input list that is not archived and
\* has N >= 1 tags is in exactly N distinct buckets, one keyed by each of its
\* tags; one with no tag is in exactly one bucket, project/No Tag.
C3_ExactlyNBuckets ==
    Organized =>
        \A w \in NotArchived(all_workflows) :
            IF w.tags # <<>>
            THEN /\ Cardinality(BucketsOf(w.id)) = Len(w.tags)
                 /\ \A t \in Range(w.tags) :
                       TagFolder(projectOf[w.id], t) \in BucketsOf(w.id)
            ELSE BucketsOf(w.id) = {NoTagFolder(projectOf[w.id])}

\* C3 (amended): an entity that is not archived and has N >= 1 tags is
\* appended once per tag, N times in all, to the buckets keyed
\* project/sanitize(tag name), and to no other bucket; these are N distinct
\* buckets when the sanitized tag names differ pairwise, and tags whose names
\* sanitize to the same string share one bucket.  An entity with no tag is
\* placed once, in the bucket project/No Tag alone.
C3_OnePlacementPerTag ==
    Organized =>
        \A w \in NotArchived(all_workflows) :
            IF w.tags # <<>>
            THEN /\ BucketsOf(w.id) =
                        {TagFolder(projectOf[w.id], t) : t \in Range(w.tags)}
                 /\ PlacementsOf(w.id) = Len(w.tags)
                 /\ (\A i, j \in 1..Len(w.tags) :
                        i # j => SanitizeFilename(TagName(w.tags[i]))
                                    # SanitizeFilename(TagName(w.tags[j])))
                       => Cardinality(BucketsOf(w.id)) = Len(w.tags)
            ELSE /\ BucketsOf(w.id) = {NoTagFolder(projectOf[w.id])}
                 /\ PlacementsOf(w.id) = 1

C3_Witness ==
    /\ Organized
    /\ Len(all_workflows) = 2
    /\ all_workflows[1].tags = <<TagColon, TagNoName>>
    /\ ~all_workflows[1].isArchived
    /\ Cardinality(BucketsOf(1)) = 2
    /\ all_workflows[2].tags = <<>>
    /\ Cardinality(BucketsOf(2)) = 1
    /\ projectOf[1] = projectOf[2]

\* C4 (as stated): after an export run the snapshot holds one JSON file per
\* (entity, folder path) pair counted as a successful download: the number
\* of entity files equals the success count, in both export tools.
C4_OneFilePerSuccess ==
    pc = "done" => Cardinality(DOMAIN files) = stats.success

\* C5: no archived entity is in any bucket the organizer returned, and no
\* snapshot file is ever written for an archived entity.
C5_ArchivedExcluded ==
    /\ \A i \in 1..Len(organized) :
          \A j \in 1..Len(organized[i].workflows) :
             ~Get(organized[i].workflows[j], "isArchived", FALSE)
    /\ \A k \in 1..Len(writes) :
          \A i \in 1..Len(remote) :
             remote[i].id = writes[k].id => ~remote[i].isArchived
    /\ \A path \in DOMAIN files :
          LET doc == files[path].json
          IN  IF tool = "onefile"
              THEN ~doc.metadata.archived /\ ~doc.workflow.isArchived
              ELSE ~doc.isArchived

C5_Witness ==
    /\ pc = "done"
    /\ \E i \in 1..Len(all_workflows) : all_workflows[i].isArchived
    /\ \E i \in 1..Len(all_workflows) : ~all_workflows[i].isArchived
    /\ stats.success >= 1
    /\ DOMAIN files # {}

-----------------------------------------------------------------------------
(* find_backup_files: rglob("*.json"), the two filters, sorted() *)

\* the characters of the model in code point order
CodePoints ==
    <<"\t", "\n", "\r", " ", "\"", "(", ")", "*", ".", "/",
      "0", "1", "2", "3", "4", "5", "6", "7", "8", "9", ":", "<", ">", "?",
      "A", "D", "E", "M", "N", "P", "Q", "R", "T", "U", "\\", "_",
      "a", "b", "c", "d", "e", "g", "h", "i", "j", "k", "m", "n", "o", "p",
      "r", "s", "t", "w", "x", "y", "|">>

CodePoint(c) == CHOOSE i \in 1..Len(CodePoints) : CodePoints[i] = c

\* s < t for two str
RECURSIVE StrLess(_, _)
StrLess(s, t) ==
    IF t = <<>> THEN FALSE
    ELSE IF s = <<>> THEN TRUE
    ELSE IF Head(s) = Head(t) THEN StrLess(Tail(s), Tail(t))
    ELSE CodePoint(Head(s)) < CodePoint(Head(t))

\* p < q for two Path objects: their components compare as lists of str
RECURSIVE PathLess(_, _)
PathLess(p, q) ==
    IF q = <<>> THEN FALSE
    ELSE IF p = <<>> THEN TRUE
    ELSE IF Head(p) = Head(q) THEN PathLess(Tail(p), Tail(q))
    ELSE StrLess(Head(p), Head(q))

EndsWith(s, suffix) ==
    /\ Len(s) >= Len(suffix)
    /\ SubSeq(s, Len(s) - Len(suffix) + 1, Len(s)) = suffix

IndexJson == <<"i", "n", "d", "e", "x">> \o DotJson

ReadmeJson == <<"R", "E", "A", "D", "M", "E">> \o DotJson

\* file_path.name
PathName(path) == path[Len(path)]

\* the files rglob("*.json") yields that pass the two filters
IsWorkflowFile(path) ==
    /\ EndsWith(PathName(path), DotJson)
    /\ PathName(path) \notin {IndexJson, ReadmeJson}
    /\ Head(PathName(path)) # "."

\* sorted(workflow_files)
RECURSIVE SortPaths(_)
SortPaths(paths) ==
    IF paths = {} THEN <<>>
    ELSE LET first == CHOOSE p \in paths : \A q \in paths \ {p} : PathLess(p, q)
         IN  <<first>> \o SortPaths(paths \ {first})

FindBackupFiles(fs) == SortPaths({path \in DOMAIN fs : IsWorkflowFile(path)})

-----------------------------------------------------------------------------
(* restore_workflow: one snapshot file *)

\* json.load(f): the document, or None when the text is not JSON (the
\* JSONDecodeError is an Exception)
JsonLoad(text) == IF "json" \in DOMAIN text THEN <<text.json>> ELSE None

\* workflow_data: backup_data['workflow'] if the envelope is there, else the
\* whole document
Unwrap(backup_data) ==
    IF "workflow" \in DOMAIN backup_data THEN backup_data.workflow ELSE backup_data

\* faulty variant: every field of the payload is kept
CleanKeepsAll(workflow_data) == MapPut(workflow_data, "settings", EmptyMap)

\* clean_workflow_for_api
CleanWorkflowForApi(workflow_data) ==
    [k \in (DOMAIN workflow_data \cap {"name", "nodes", "connections"})
            \cup {"settings"} |->
        IF k = "settings" THEN EmptyMap ELSE workflow_data[k]]

\* faulty variant: the PUT carries the cleaned payload
PutBodyCleaned(workflow_data) == CleanWorkflowForApi(workflow_data)

\* update_workflow: json=workflow_data
PutBody(workflow_data) == workflow_data

Restored == <<"r", "e", "s", "t", "o", "r", "e", "d">>

\* datetime.now().strftime('%Y%m%d_%H%M%S')
Timestamp(clock) == <<ToString(clock)>>

\* faulty variant: the name is left as it is
SameName(workflow_name, clock) == workflow_name

\* new_name = f"{workflow_name} (restored {timestamp})"
NewName(workflow_name, clock) ==
    workflow_name \o <<" ", "(">> \o Restored \o <<" ">> \o Timestamp(clock) \o <<")">>

\* faulty variant: the except clause leaves the result as initialised
ExceptionUnrecorded(file_name) ==
    [file |-> file_name, status |-> "unknown", action |-> "None", workflow_id |-> 0]

\* except Exception: status = 'error', action = 'exception'
ExceptionResult(file_name) ==
    [file |-> file_name, status |-> "error", action |-> "exception", workflow_id |-> 0]

\* faulty variant: the id of the existing workflow is not recorded
SkippedWithoutId(file_name, existing_id) ==
    [file |-> file_name, status |-> "skipped", action |-> "exists",
     workflow_id |-> 0]

\* mode == 'skip': status = 'skipped', action = 'exists',
\* workflow_id = existing_id
SkippedResult(file_name, existing_id) ==
    [file |-> file_name, status |-> "skipped", action |-> "exists",
     workflow_id |-> existing_id]

\* The remote's creation endpoint, POST /api/v1/workflows: name and nodes are
\* required; the new workflow gets the next id.
PostAccepted(body) == "name" \in DOMAIN body /\ "nodes" \in DOMAIN body

Created(list, body) ==
    Append(list, [id |-> Len(list) + 1, name |-> body.name, isArchived |-> FALSE,
                  tags |-> <<>>, shared |-> <<>>, nodes |-> body.nodes])

\* The remote's update endpoint, PUT /api/v1/workflows/{id}: the workflow
\* takes the name and the nodes of the body.
Updated(list, id, body) ==
    [i \in 1..Len(list) |->
        IF list[i].id = id
        THEN [list[i] EXCEPT !.name = Get(body, "name", @),
                             !.nodes = Get(body, "nodes", @)]
        ELSE list[i]]

\* faulty variant: the name is looked up in the workflows the remote holds now
ExistingIdLive(existing_workflows, workflow_name, list) ==
    IF \E i \in 1..Len(list) : list[i].name = workflow_name
    THEN list[CHOOSE i \in 1..Len(list) : list[i].name = workflow_name].id
    ELSE 0

\* existing_id = existing_workflows.get(workflow_name): the map built before
\* the loop decides, whatever the remote holds now
ExistingId(existing_workflows, workflow_name, list) ==
    Get(existing_workflows, workflow_name, 0)

\* restore_workflow(file_path, existing_workflows, mode), with the outcome ok
\* of the one request it may issue.  Returns the result record, the POST or
\* PUT issued (as a sequence of zero or one), and the remote afterwards.
RestoreWorkflow(path, text, existing_workflows, m, list, clock, ok) ==
    LET backup_data == JsonLoad(text)
        file_name == PathName(path)
    IN  IF backup_data = None
        THEN [result |-> ExceptionResult(file_name), post |-> <<>>, put |-> <<>>,
              remote |-> list]
        ELSE
        LET workflow_data == Unwrap(backup_data[1])
            workflow_name == Get(workflow_data, "name", Unnamed)
            existing_id == ExistingId(existing_workflows, workflow_name, list)
            renamed == MapPut(workflow_data, "name", NewName(workflow_name, clock))
            to_create == IF existing_id # 0 THEN renamed ELSE workflow_data
            body == CleanWorkflowForApi(to_create)
            new_id == IF ok /\ PostAccepted(body) THEN Len(list) + 1 ELSE 0
            create ==
                [result |->
                    IF new_id # 0
                    THEN [file |-> file_name, status |-> "success",
                          action |-> IF existing_id # 0 THEN "created_renamed"
                                     ELSE "created",
                          workflow_id |-> new_id]
                    ELSE [file |-> file_name, status |-> "failed",
                          action |-> "create_failed", workflow_id |-> 0],
                 post |-> <<[body |-> body, id |-> new_id]>>,
                 put |-> <<>>,
                 remote |-> IF new_id # 0 THEN Created(list, body) ELSE list]
        IN  IF existing_id # 0 /\ m = "skip"
            THEN [result |-> SkippedResult(file_name, existing_id),
                  post |-> <<>>, put |-> <<>>, remote |-> list]
            ELSE IF existing_id # 0 /\ m = "update"
            THEN [result |->
                    IF ok
                    THEN [file |-> file_name, status |-> "success",
                          action |-> "updated", workflow_id |-> existing_id]
                    ELSE [file |-> file_name, status |-> "failed",
                          action |-> "update_failed", workflow_id |-> 0],
                  post |-> <<>>,
                  put |-> <<[id |-> existing_id, body |-> PutBody(workflow_data),
                             ok |-> ok]>>,
                  remote |-> IF ok THEN Updated(list, existing_id,
                                                PutBody(workflow_data))
                             ELSE list]
            ELSE create

\* the request restore_workflow issues for the file, if any
IssuesRequest(text, existing_workflows, m) ==
    /\ JsonLoad(text) # None
    /\ ~(/\ Get(Unwrap(JsonLoad(text)[1]), "name", Unnamed) \in DOMAIN existing_workflows
         /\ m = "skip")

\* faulty variant: an outcome with status 'error' is not counted as failed
TallyErrorsUncounted(st, result) ==
    LET counted ==
          IF result.status = "success"
          THEN IF result.action \in {"created", "created_renamed"}
               THEN [st EXCEPT !.created = @ + 1]
               ELSE IF result.action = "updated"
               THEN [st EXCEPT !.updated = @ + 1]
               ELSE st
          ELSE IF result.status = "skipped"
          THEN [st EXCEPT !.skipped = @ + 1]
          ELSE IF result.status = "failed"
          THEN [st EXCEPT !.failed = @ + 1]
          ELSE st
    IN  [counted EXCEPT !.results = Append(@, result)]

\* the counters of restore_from_backup after one more result
Tally(st, result) ==
    LET counted ==
          IF result.status = "success"
          THEN IF result.action \in {"created", "created_renamed"}
               THEN [st EXCEPT !.created = @ + 1]
               ELSE IF result.action = "updated"
               THEN [st EXCEPT !.updated = @ + 1]
               ELSE st
          ELSE IF result.status = "skipped"
          THEN [st EXCEPT !.skipped = @ + 1]
          ELSE IF result.status \in {"failed", "error"}
          THEN [st EXCEPT !.failed = @ + 1]
          ELSE st
    IN  [counted EXCEPT !.results = Append(@, result)]

-----------------------------------------------------------------------------
(* Specification SpecRestore: one run of restore_from_backup *)

MaxFiles == 2       \* workflow files in the snapshot directory
MaxRuns == 2        \* restore runs in a row (SpecRestoreTwice)

Modes == {"skip", "update", "rename"}

\* faulty variant: the existing workflows are listed in a dry run too
ListingUnlessEmpty(total, dry) == total # 0

\* restore_from_backup returns before get_existing_workflows when no file
\* was found or dry_run is set
ListingNeeded(total, dry) == total # 0 /\ ~dry

PathPxa == <<<<"P">>, <<"x">>, <<"a">> \o DotJson>>

PathPxb == <<<<"P">>, <<"x">>, <<"b">> \o DotJson>>

PathQxa == <<<<"Q">>, <<"x">>, <<"a">> \o DotJson>>

RestorePaths == {PathPxa, PathPxb, PathQxa}

\* files of a snapshot directory that are no workflow files
OtherFiles ==
    {<<IndexJson>>, <<<<"R", "E", "A", "D", "M", "E", ".", "m", "d">>>>,
     <<<<"P">>, <<".", "h">> \o DotJson>>}

\* the texts of the workflow files: a raw detail payload, a payload in the
\* metadata/workflow envelope, a payload without a name, a text that is no JSON
RawA == [name |-> <<"a">>, nodes |-> "n2", id |-> 7, active |-> TRUE]

RawB == [name |-> <<"b">>, nodes |-> "n2", connections |-> "c2", id |-> 8,
         active |-> FALSE]

RestoreTexts ==
    {JsonDump(RawA), JsonDump(RawB),
     JsonDump([metadata |-> [workflow_id |-> 7, workflow_name |-> <<"a">>],
               workflow |-> RawA]),
     JsonDump([nodes |-> "n2", id |-> 9]),
     [garbage |-> "{"]}

Snapshots ==
    {[path \in DOMAIN f \cup OtherFiles |->
         IF path \in DOMAIN f THEN f[path] ELSE JsonDump([backup_info |-> "i"])] :
       f \in UNION {[S -> RestoreTexts] :
                      S \in {T \in SUBSET RestorePaths : Cardinality(T) <= MaxFiles}}}

RestoreShapes ==
    [name : {<<"a">>, <<"b">>}, isArchived : {FALSE}, tags : {<<>>},
     shared : {<<>>}, nodes : {"n1"}]

InitRestore ==
    /\ tool = "none"
    /\ pc = "idle"
    /\ remote \in Remotes(RestoreShapes, MaxWorkflows)
    /\ pageCap = 1
    /\ requests = <<>>
    /\ responses = <<>>
    /\ listFailed = FALSE
    /\ all_workflows = <<>>
    /\ existing = EmptyMap
    /\ active_workflows = <<>>
    /\ oi = 0
    /\ projectOf = EmptyMap
    /\ organized = <<>>
    /\ di = 0
    /\ stats = [total |-> 0, success |-> 0, failed |-> 0]
    /\ files \in Snapshots
    /\ writes = <<>>
    /\ details = <<>>
    /\ manifest = FALSE
    /\ exitCode = -1
    /\ RestoreIdle
    /\ failures = 0
    /\ SanitizeIdle

\* restore_from_backup up to the loop: find_backup_files, the early returns,
\* get_existing_workflows
RestoreFrom(at, modes, drys) ==
    /\ pc = at
    /\ \E m \in modes, dry \in drys, failAt \in 0..(Len(remote) + 1) :
         LET found == FindBackupFiles(files)
             listing == ListingNeeded(Len(found), dry)
             r == GetExistingWorkflows(remote, pageCap, failAt)
         IN  /\ IF listing THEN r.failed = (failAt # 0) ELSE failAt = 0
             /\ tool' = "restore"
             /\ mode' = m
             /\ dry_run' = dry
             /\ workflow_files' = found
             /\ rstats' = [rstats EXCEPT !.total = Len(found)]
             /\ IF listing
                THEN /\ requests' = r.requests
                     /\ responses' = r.responses
                     /\ listFailed' = r.failed
                     /\ existing' = r.result
                     /\ pc' = IF found = <<>> THEN "done" ELSE "restore"
                ELSE /\ UNCHANGED <<requests, responses, listFailed, existing>>
                     /\ pc' = "done"
    /\ remote0' = remote
    /\ UNCHANGED <<remote, pageCap, sanitizeVars, all_workflows, exportVars,
                   failures, ri, posts, puts, now, prev>>

\* the restore script is started from the shell
RestoreStart(modes, drys) == RestoreFrom("idle", modes, drys)

RestoreRun == RestoreStart(Modes, BOOLEAN)

\* one iteration of the loop of restore_from_backup: restore_workflow and
\* the counters
RestoreStep ==
    /\ pc = "restore"
    /\ \E ok \in BOOLEAN :
         LET path == workflow_files[ri + 1]
             r == RestoreWorkflow(path, files[path], existing, mode, remote, now, ok)
         IN  /\ ~IssuesRequest(files[path], existing, mode) => ok
             /\ remote' = r.remote
             /\ posts' = posts \o [i \in 1..Len(r.post) |->
                                     [file |-> ri + 1, body |-> r.post[i].body,
                                      id |-> r.post[i].id]]
             /\ puts' = puts \o [i \in 1..Len(r.put) |->
                                   [file |-> ri + 1, id |-> r.put[i].id,
                                    body |-> r.put[i].body, ok |-> r.put[i].ok]]
             /\ rstats' = Tally(rstats, r.result)
    /\ ri' = ri + 1
    /\ pc' = IF ri + 1 = Len(workflow_files) THEN "done" ELSE "restore"
    /\ UNCHANGED <<tool, pageCap, sanitizeVars, listVars, exportVars,
                   failures, mode, dry_run, workflow_files, remote0, now,
                   prev>>

NextRestore == RestoreRun \/ RestoreStep

SpecRestore == InitRestore /\ [][NextRestore]_vars

-----------------------------------------------------------------------------
(* Specification SpecRestoreTwice: skip-mode restores of one snapshot, one
   after the other *)

SkipRun == RestoreStart({"skip"}, {FALSE})

\* the script is started again, later, on the same snapshot directory
Rerun ==
    /\ pc = "done"
    /\ Len(prev) < MaxRuns - 1
    /\ prev' = Append(prev, [mode |-> mode, dry_run |-> dry_run, stats |-> rstats])
    /\ pc' = "idle"
    /\ now' = now + 1
    /\ requests' = <<>>
    /\ responses' = <<>>
    /\ listFailed' = FALSE
    /\ existing' = EmptyMap
    /\ workflow_files' = <<>>
    /\ ri' = 0
    /\ rstats' = [total |-> 0, created |-> 0, updated |-> 0, skipped |-> 0,
                  failed |-> 0, results |-> <<>>]
    /\ posts' = <<>>
    /\ puts' = <<>>
    /\ UNCHANGED <<tool, remote, pageCap, sanitizeVars, all_workflows,
                   exportVars, failures, mode, dry_run, remote0>>

NextRestoreTwice == SkipRun \/ RestoreStep \/ Rerun

SpecRestoreTwice == InitRestore /\ [][NextRestoreTwice]_vars

-----------------------------------------------------------------------------
(* Claims about the restore tool *)

\* the workflow files of the snapshot directory
Candidates == {path \in DOMAIN files : IsWorkflowFile(path)}

Parses(path) == JsonLoad(files[path]) # None

\* the payload of a snapshot file that parses, without its envelope
PayloadIn(path) == Unwrap(JsonLoad(files[path])[1])

\* the name the reconciler looks up for a snapshot file that parses
NameIn(path) == Get(PayloadIn(path), "name", Unnamed)

PostsFor(k) == {i \in 1..Len(posts) : posts[i].file = k}

PutsFor(k) == {i \in 1..Len(puts) : puts[i].file = k}

\* C2 (as stated): when a skip-mode restore run has completed with
\* failed = 0, a second skip-mode run of the same snapshot against the remote
\* the first run left issues no POST and reports created = 0.
C2_SecondSkipRunCreatesNothing ==
    (/\ pc = "done" /\ mode = "skip" /\ ~dry_run
     /\ Len(prev) = 1
     /\ prev[1].mode = "skip" /\ ~prev[1].dry_run /\ prev[1].stats.failed = 0)
        => (posts = <<>> /\ rstats.created = 0)

\* C7: in rename mode no PUT is issued and every workflow the remote held at
\* the start is left as it was; for a snapshot file whose name is in the
\* existence map, success means created_renamed, and then a new workflow named
\* "<name> (restored <timestamp>)" exists beside the original one.
C7_RenameNeverOverwrites ==
    (tool = "restore" /\ mode = "rename" /\ ~dry_run) =>
        /\ puts = <<>>
        /\ SubSeq(remote, 1, Len(remote0)) = remote0
        /\ \A k \in 1..ri :
             LET path == workflow_files[k]
                 result == rstats.results[k]
             IN  (Parses(path) /\ NameIn(path) \in DOMAIN existing) =>
                   /\ PutsFor(k) = {}
                   /\ Cardinality(PostsFor(k)) = 1
                   /\ result.status = "success" =>
                        /\ result.action = "created_renamed"
                        /\ \E i \in (Len(remote0) + 1)..Len(remote) :
                              /\ remote[i].id = result.workflow_id
                              /\ remote[i].name =
                                    NameIn(path)
                                      \o <<" ", "(", "r", "e", "s", "t", "o", "r", "e", "d", " ">>
                                      \o Timestamp(now) \o <<")">>
                        /\ \E j \in 1..Len(remote0) :
                              /\ remote[j].id = existing[NameIn(path)]
                              /\ remote[j].name = NameIn(path)
                              /\ remote[j] = remote0[j]

C7_Witness ==
    /\ tool = "restore" /\ mode = "rename" /\ ~dry_run /\ pc = "done"
    /\ \E k \in 1..ri :
         /\ Parses(workflow_files[k])
         /\ NameIn(workflow_files[k]) \in DOMAIN existing
         /\ rstats.results[k].action = "created_renamed"
    /\ Len(remote) > Len(remote0)

\* C8: a dry-run restore issues no listing GET, no POST and no PUT, leaves
\* the remote as it is, and returns created = updated = skipped = failed = 0
\* with an empty results list and total = the number of candidate files, in
\* every mode.
C8_DryRunTouchesNothing ==
    (tool = "restore" /\ dry_run) =>
        /\ pc = "done"
        /\ requests = <<>> /\ posts = <<>> /\ puts = <<>>
        /\ remote = remote0
        /\ rstats.created = 0 /\ rstats.updated = 0
        /\ rstats.skipped = 0 /\ rstats.failed = 0
        /\ rstats.results = <<>>
        /\ rstats.total = Cardinality(Candidates)

C8_Witness ==
    /\ tool = "restore" /\ dry_run /\ pc = "done"
    /\ mode = "update"
    /\ rstats.total = 2
    /\ remote # <<>>

\* C9: in update mode, for a snapshot file whose name is in the existence
\* map, exactly one PUT goes to the id mapped to the name, with the whole
\* unwrapped payload, and no POST; a PUT that succeeds gives success/updated,
\* one that fails failed/update_failed, and updated counts the PUTs that
\* succeeded.
C9_UpdateIssuesOnePut ==
    (tool = "restore" /\ mode = "update" /\ ~dry_run) =>
        /\ \A k \in 1..ri :
             LET path == workflow_files[k]
                 result == rstats.results[k]
             IN  (Parses(path) /\ NameIn(path) \in DOMAIN existing) =>
                   /\ PostsFor(k) = {}
                   /\ Cardinality(PutsFor(k)) = 1
                   /\ \A i \in PutsFor(k) :
                        /\ puts[i].id = existing[NameIn(path)]
                        /\ puts[i].body = PayloadIn(path)
                        /\ IF puts[i].ok
                           THEN /\ result.status = "success"
                                /\ result.action = "updated"
                           ELSE /\ result.status = "failed"
                                /\ result.action = "update_failed"
        /\ rstats.updated = Cardinality({i \in 1..Len(puts) : puts[i].ok})

C9_Witness ==
    /\ tool = "restore" /\ mode = "update" /\ ~dry_run /\ pc = "done"
    /\ Len(puts) = 2
    /\ puts[1].ok /\ ~puts[2].ok
    /\ "id" \in DOMAIN puts[1].body
    /\ rstats.updated = 1 /\ rstats.failed = 1

\* C10: in a restore that is no dry run, a file that does not parse gets the
\* outcome error/exception, every other candidate file is processed, and
\* the results list holds one outcome per candidate file, in the sorted
\* order of the file paths.
C10_MalformedFileDoesNotAbort ==
    (tool = "restore" /\ ~dry_run /\ pc = "done") =>
        /\ Len(rstats.results) = rstats.total
        /\ rstats.total = Cardinality(Candidates)
        /\ Range(workflow_files) = Candidates
        /\ \A i, j \in 1..Len(workflow_files) :
              i < j => PathLess(workflow_files[i], workflow_files[j])
        /\ \A k \in 1..Len(rstats.results) :
              /\ rstats.results[k].file = PathName(workflow_files[k])
              /\ IF Parses(workflow_files[k])
                 THEN rstats.results[k].status \in {"success", "skipped", "failed"}
                 ELSE /\ rstats.results[k].status = "error"
                      /\ rstats.results[k].action = "exception"

C10_Witness ==
    /\ tool = "restore" /\ ~dry_run /\ pc = "done"
    /\ rstats.total = 2
    /\ ~Parses(workflow_files[1])
    /\ rstats.results[1].status = "error"
    /\ rstats.results[2].status = "success"
    /\ rstats.failed = 1

-----------------------------------------------------------------------------
(* Claims about snapshot files that lack entity fields *)

\* C11 (as stated): a snapshot file that is valid JSON but has no name gets
\* the per-file outcome error, and no POST and no PUT is issued for it.
C11_NamelessFileIsErrorWithoutCall ==
    (tool = "restore" /\ ~dry_run) =>
        \A k \in 1..ri :
            LET path == workflow_files[k]
            IN  (Parses(path) /\ "name" \notin DOMAIN PayloadIn(path)) =>
                  /\ rstats.results[k].status = "error"
                  /\ PostsFor(k) = {}
                  /\ PutsFor(k) = {}

-----------------------------------------------------------------------------
(* Specification SpecLayout: export runs over the project and tag names the
   remote may return *)

TagEmptyName == [name |-> <<>>]

TagDotDot == [name |-> <<".", ".">>]

\* projects named "", "." and "..", and a personal project whose name
\* begins with "<"
ProjectEmpty == [project |-> [name |-> <<>>, type |-> "team"]]

ProjectDot == [project |-> [name |-> <<".">>, type |-> "team"]]

ProjectDotDot == [project |-> [name |-> <<".", ".">>, type |-> "team"]]

PersonalBracket == [project |-> [name |-> <<"<", "e", ">">>, type |-> "personal"]]

LayoutShapes ==
    [name : {<<"a">>}, isArchived : {FALSE},
     tags : {<<>>, <<TagEmptyName>>, <<TagNoName>>, <<TagDotDot>>},
     shared : {<<PersonalProject>>, <<ProjectEmpty>>, <<ProjectDot>>,
               <<ProjectDotDot>>, <<PersonalBracket>>},
     nodes : {"n1"}]

InitLayout ==
    /\ tool = "none"
    /\ pc = "idle"
    /\ remote \in Remotes(LayoutShapes, MaxWorkflows)
    /\ pageCap = 1
    /\ requests = <<>>
    /\ responses = <<>>
    /\ listFailed = FALSE
    /\ all_workflows = <<>>
    /\ existing = EmptyMap
    /\ ExportIdle
    /\ RestoreIdle
    /\ failures = 0
    /\ SanitizeIdle

SpecLayout == InitLayout /\ [][NextExport]_vars

-----------------------------------------------------------------------------
(* Claims about the names the organizer and the writer build *)

\* C12 (as stated): a tag whose name is missing or is the empty string is
\* given the label "Untagged": the entity is in the bucket project/Untagged.
C12_NamelessTagIsUntagged ==
    Organized =>
        \A w \in NotArchived(all_workflows) :
            \A t \in Range(w.tags) :
                ("name" \notin DOMAIN t \/ t.name = <<>>) =>
                    (projectOf[w.id] \o <<"/">> \o Untagged) \in BucketsOf(w.id)

-----------------------------------------------------------------------------
(* Claims about a detail lookup that returns None *)

\* the detail GETs that raised, by caller
FailedDetails(caller) ==
    {k \in 1..Len(details) : details[k].by = caller /\ ~details[k].ok}

\* the pairs the writer wrote with success
WrittenPairs == {writes[k].pair : k \in 1..Len(writes)}

\* C13 (as stated): an entity whose detail lookup returns absent in the
\* organizer is placed in no bucket; a pair whose detail lookup returns
\* absent in the writer is not written and is counted as failed; the
\* entities and pairs after it are still processed.
C13_AbsentDetailSkipsEntity ==
    /\ \A k \in FailedDetails("organize") : BucketsOf(details[k].id) = {}
    /\ \A k \in FailedDetails("download") :
          /\ details[k].pair \notin WrittenPairs
          /\ di >= details[k].pair
    /\ stats.failed >= Cardinality(FailedDetails("download"))

\* C13 (amended): no caller of get_workflow_details ends the run on None.
\* In the organizer the project name of the entity then defaults to
\* "Unknown Project" and the entity is still placed, once per tag or under
\* No Tag, in buckets keyed Unknown Project/...; the organizer goes on to the
\* next entity, and places every entity that is not archived.  In the writer
\* the pair is not written and is counted as failed, and the writer goes on
\* to the next pair.
C13_AbsentDetailDefaultsProject ==
    /\ \A k \in FailedDetails("organize") :
          LET w == active_workflows[k]
          IN  /\ w.id = details[k].id
              /\ oi >= k
              /\ projectOf[w.id] = UnknownProject
              /\ BucketsOf(w.id) =
                    IF w.tags # <<>>
                    THEN {TagFolder(UnknownProject, t) : t \in Range(w.tags)}
                    ELSE {NoTagFolder(UnknownProject)}
    /\ Organized =>
          /\ oi = Len(active_workflows)
          /\ \A w \in NotArchived(all_workflows) : BucketsOf(w.id) # {}
    /\ \A k \in FailedDetails("download") :
          /\ details[k].pair \notin WrittenPairs
          /\ di >= details[k].pair
    /\ stats.failed >= Cardinality(FailedDetails("download"))
    /\ stats.success + stats.failed = di
    /\ pc = "done" => di = Len(DownloadPairs(organized))

C13_Witness ==
    /\ pc = "done"
    /\ Len(all_workflows) = 2
    /\ \A i \in 1..2 : ~all_workflows[i].isArchived
    /\ FailedDetails("organize") = {1}
    /\ remote[1].shared = <<PersonalProject>>
    /\ projectOf[1] = UnknownProject
    /\ BucketsOf(1) = {UnknownProject \o <<"/">> \o NoTag}
    /\ projectOf[2] = <<"P">>
    /\ BucketsOf(2) # {}
    /\ stats.success = 2

-----------------------------------------------------------------------------
(* Where the files of the writer land *)

DotDot == <<".", ".">>

\* the file system resolves the components of backup_dir / folder_path /
\* filename to a place below backup_dir: an absolute folder_path replaces
\* backup_dir, and ".." names the parent directory
RECURSIVE StaysBelow(_, _)
StaysBelow(path, depth) ==
    IF path = <<>> THEN TRUE
    ELSE IF Head(path) = <<"/">> THEN FALSE
    ELSE IF Head(path) = DotDot
    THEN depth > 0 /\ StaysBelow(Tail(path), depth - 1)
    ELSE StaysBelow(Tail(path), depth + 1)

InsideBackupDir(path) == StaysBelow(path, 0)

\* C14 (as stated): whatever project and tag names the remote returns, every
\* entity file the writer writes is inside the snapshot root, at
\* <sanitized project>/<sanitized tag or "No Tag">/<file>.json.
C14_FilesInsideSnapshotRoot ==
    \A path \in DOMAIN files :
        /\ InsideBackupDir(path)
        /\ Len(path) = 3
        /\ EndsWith(path[3], DotJson)
        /\ \E k \in 1..Len(writes) :
              /\ path[1] = projectOf[writes[k].id]
              /\ writes[k].folder = path[1] \o <<"/">> \o path[2]

-----------------------------------------------------------------------------
(* Claims about the end of an export run *)

\* C15 (as stated): when the listing fetch of an export tool returns no
\* entity, the run issues no detail request, writes no entity file and no
\* manifest, and the process ends with a non-zero exit status.
C15_EmptyListingIsFatal ==
    (tool \in {"download", "onefile"} /\ pc # "idle" /\ all_workflows = <<>>) =>
        /\ pc = "exit"
        /\ details = <<>>
        /\ DOMAIN files = {}
        /\ ~manifest
        /\ exitCode > 0

-----------------------------------------------------------------------------
(* Specification SpecSanitize: sanitize_filename applied to a name, and
   again to what it returned *)

MaxLen == 3         \* longest name passed to sanitize_filename

\* the nine characters sanitize_filename replaces, and a letter, the
\* underscore and three whitespace characters
NameChars == Range(InvalidChars) \cup {"a", "_", " ", "\t", "\n"}

Names == UNION {[1..n -> NameChars] : n \in 0..MaxLen}

InitSanitize ==
    /\ tool = "none"
    /\ pc = "idle"
    /\ remote = <<>>
    /\ pageCap = 1
    /\ requests = <<>>
    /\ responses = <<>>
    /\ listFailed = FALSE
    /\ all_workflows = <<>>
    /\ existing = EmptyMap
    /\ ExportIdle
    /\ RestoreIdle
    /\ failures = 0
    /\ name_arg \in Names
    /\ sanitized = <<>>

\* sanitize_filename(name), then sanitize_filename of the result
SanitizeCall ==
    /\ Len(sanitized) < 2
    /\ sanitized' = Append(sanitized,
                           SanitizeFilename(IF sanitized = <<>> THEN name_arg
                                            ELSE sanitized[Len(sanitized)]))
    /\ UNCHANGED <<tool, pc, remote, pageCap, listVars, exportVars, failures,
                   restoreVars, name_arg>>

NextSanitize == SanitizeCall

SpecSanitize == InitSanitize /\ [][NextSanitize]_vars

\* C16: sanitize(sanitize(x)) = sanitize(x), and sanitize(x) holds none of
\* the characters < > : " / \ | ? *, for every string x.
C16_SanitizeIdempotentAndSafe ==
    /\ \A i \in 1..Len(sanitized) :
          Range(sanitized[i]) \cap {"<", ">", ":", "\"", "/", "\\", "|", "?", "*"} = {}
    /\ Len(sanitized) = 2 => sanitized[2] = sanitized[1]

C16_Witness ==
    /\ Len(sanitized) = 2
    /\ name_arg = <<" ", "/", "?">>
    /\ sanitized[1] = <<"_", "_">>
    /\ sanitized[2] = <<"_", "_">>

-----------------------------------------------------------------------------
(* Claims about the branches of restore_workflow *)

AllowedFields == {"name", "nodes", "connections"}

\* C17: in every mode, for a snapshot file whose name is not in the
\* existence map, exactly one POST and no PUT is issued; the body of the POST
\* holds the keys name, nodes and connections that the payload has, with the
\* values of the payload, and settings = {}, and nothing else; a POST that
\* succeeds gives success/created with the id the remote returned, which then
\* names a workflow of the remote with the name of the body; a POST that
\* fails gives failed/create_failed.
C17_AbsentNameIsCreated ==
    (tool = "restore" /\ ~dry_run) =>
        \A k \in 1..ri :
            LET path == workflow_files[k]
                result == rstats.results[k]
            IN  (Parses(path) /\ NameIn(path) \notin DOMAIN existing) =>
                  /\ PutsFor(k) = {}
                  /\ Cardinality(PostsFor(k)) = 1
                  /\ \A i \in PostsFor(k) :
                       LET body == posts[i].body
                           kept == DOMAIN PayloadIn(path) \cap AllowedFields
                       IN  /\ DOMAIN body = kept \cup {"settings"}
                           /\ \A key \in kept : body[key] = PayloadIn(path)[key]
                           /\ body.settings = EmptyMap
                           /\ IF posts[i].id # 0
                              THEN /\ result.status = "success"
                                   /\ result.action = "created"
                                   /\ result.workflow_id = posts[i].id
                                   /\ \E j \in 1..Len(remote) :
                                         /\ remote[j].id = posts[i].id
                                         /\ remote[j].name = body.name
                              ELSE /\ result.status = "failed"
                                   /\ result.action = "create_failed"

C17_Witness ==
    /\ tool = "restore" /\ ~dry_run /\ pc = "done"
    /\ mode = "update"
    /\ remote0 # <<>>
    /\ Len(posts) = 2
    /\ posts[1].id # 0
    /\ DOMAIN posts[1].body = {"name", "nodes", "connections", "settings"}
    /\ "id" \in DOMAIN PayloadIn(workflow_files[1])
    /\ rstats.results[1].action = "created"
    /\ posts[2].id = 0
    /\ rstats.results[2].action = "create_failed"

\* the POSTs of the run that the remote accepted
PostsAccepted == {i \in 1..Len(posts) : posts[i].id # 0}

\* C18: in skip mode, for a snapshot file whose name is in the existence
\* map, no POST and no PUT is issued and the outcome is skipped/exists with
\* the id mapped to the name; the remote changes by the POSTs of the other
\* files alone: the workflows it held at the start stay as they were and it
\* gains one workflow per accepted POST.
C18_SkipIssuesNoCall ==
    (tool = "restore" /\ mode = "skip" /\ ~dry_run) =>
        /\ \A k \in 1..ri :
             LET path == workflow_files[k]
             IN  (Parses(path) /\ NameIn(path) \in DOMAIN existing) =>
                   /\ PostsFor(k) = {}
                   /\ PutsFor(k) = {}
                   /\ rstats.results[k] =
                        [file |-> PathName(path), status |-> "skipped",
                         action |-> "exists",
                         workflow_id |-> existing[NameIn(path)]]
        /\ puts = <<>>
        /\ SubSeq(remote, 1, Len(remote0)) = remote0
        /\ Len(remote) = Len(remote0) + Cardinality(PostsAccepted)

C18_Witness ==
    /\ tool = "restore" /\ mode = "skip" /\ ~dry_run /\ pc = "done"
    /\ ri = 2
    /\ \A k \in 1..2 :
          /\ Parses(workflow_files[k])
          /\ NameIn(workflow_files[k]) \in DOMAIN existing
          /\ rstats.results[k].status = "skipped"
    /\ rstats.results[1].workflow_id # rstats.results[2].workflow_id
    /\ "workflow" \in DOMAIN JsonLoad(files[workflow_files[1]])[1]
    /\ remote = remote0
    /\ rstats.skipped = 2

\* the status/action pairs an outcome may have
OutcomePairs ==
    {<<"success", "created">>, <<"success", "created_renamed">>,
     <<"success", "updated">>, <<"skipped", "exists">>,
     <<"failed", "update_failed">>, <<"failed", "create_failed">>,
     <<"error", "exception">>}

\* the outcomes recorded so far whose action is one of the set
WithAction(actions) ==
    {k \in 1..Len(rstats.results) : rstats.results[k].action \in actions}

\* C19: in a restore that is no dry run, in each of the three modes, every
\* outcome has an allowed status/action pair; created counts the outcomes
\* created and created_renamed, updated the outcomes updated, skipped the
\* outcomes exists, failed the outcomes update_failed, create_failed and
\* exception; the four counters add up to the number of outcomes, which is
\* total once the run has ended.
C19_TallyIsConsistent ==
    (tool = "restore" /\ ~dry_run /\ mode \in {"skip", "update", "rename"}) =>
        /\ \A k \in 1..Len(rstats.results) :
              <<rstats.results[k].status, rstats.results[k].action>> \in OutcomePairs
        /\ rstats.created = Cardinality(WithAction({"created", "created_renamed"}))
        /\ rstats.updated = Cardinality(WithAction({"updated"}))
        /\ rstats.skipped = Cardinality(WithAction({"exists"}))
        /\ rstats.failed =
              Cardinality(WithAction({"update_failed", "create_failed", "exception"}))
        /\ rstats.created + rstats.updated + rstats.skipped + rstats.failed
              = Len(rstats.results)
        /\ Len(rstats.results) = ri
        /\ pc = "done" => Len(rstats.results) = rstats.total

C19_Witness ==
    /\ tool = "restore" /\ ~dry_run /\ pc = "done"
    /\ mode = "rename"
    /\ rstats.total = 2
    /\ rstats.results[1].action = "exception"
    /\ rstats.results[2].action = "created_renamed"
    /\ rstats.created = 1 /\ rstats.failed = 1
    /\ rstats.updated = 0 /\ rstats.skipped = 0

-----------------------------------------------------------------------------
(* Claims about the counters of the writer *)

\* C20 (as stated): a failure while one (folder path, entity) pair is
\* fetched and written increments failed and the writer goes on to the next
\* pair: no pair ends the run; after the run success + failed is the number
\* of pairs of the organizer's output, and index.json and README.md are
\* written even when every pair failed.
C20_FailedPairDoesNotAbort ==
    /\ pc # "crashed"
    /\ stats.success + stats.failed = di
    /\ (exitCode # -1 /\ all_workflows # <<>>) =>
          /\ pc = "done"
          /\ manifest
          /\ stats.success + stats.failed = Len(DownloadPairs(organized))

-----------------------------------------------------------------------------
(* Claims about the existence map *)

\* the names of the workflows the remote held when the run started
NamesAtStart == {remote0[i].name : i \in 1..Len(remote0)}

\* the id the listing gives a name: the one of the last workflow that has it
LastIdAtStart(name) ==
    remote0[CHOOSE i \in 1..Len(remote0) :
                /\ remote0[i].name = name
                /\ \A j \in (i + 1)..Len(remote0) : remote0[j].name # name].id

\* the actions a file whose name is in the map may end with, by mode
ActionsFound(m) ==
    IF m = "skip" THEN {"exists"}
    ELSE IF m = "update" THEN {"updated", "update_failed"}
    ELSE {"created_renamed", "create_failed"}

\* C21: in a restore that is no dry run the existence map is built by one
\* listing pass before the first file and stays what that pass gave: the
\* names and ids of the remote at the start of the run (nothing when the
\* listing failed).  What is done for a file follows from that map alone: a
\* name in it is skipped, updated or renamed as the mode says, and a name not
\* in it is POSTed, also when an earlier file of the run has created a
\* workflow of that name.
C21_ExistenceMapBuiltOnce ==
    (tool = "restore" /\ ~dry_run /\ pc \in {"restore", "done"}
        /\ workflow_files # <<>>) =>
        /\ Cardinality({i \in 1..Len(requests) : requests[i].cursor = NoCursor}) = 1
        /\ IF listFailed
           THEN DOMAIN existing = {}
           ELSE /\ DOMAIN existing = NamesAtStart
                /\ \A name \in NamesAtStart : existing[name] = LastIdAtStart(name)
        /\ \A k \in 1..ri :
              LET path == workflow_files[k]
              IN  Parses(path) =>
                    IF NameIn(path) \in DOMAIN existing
                    THEN rstats.results[k].action \in ActionsFound(mode)
                    ELSE /\ Cardinality(PostsFor(k)) = 1
                         /\ rstats.results[k].action \in {"created", "create_failed"}

C21_Witness ==
    /\ tool = "restore" /\ ~dry_run /\ pc = "done"
    /\ mode = "skip" /\ ~listFailed
    /\ remote0 # <<>>
    /\ ri = 2
    /\ \A k \in 1..2 :
          /\ Parses(workflow_files[k])
          /\ NameIn(workflow_files[k]) = <<"a">>
          /\ rstats.results[k].action = "created"
    /\ <<"a">> \notin DOMAIN existing
    /\ Len(posts) = 2
    /\ Cardinality({i \in 1..Len(remote) : remote[i].name = <<"a">>}) = 2

-----------------------------------------------------------------------------
(* Specification SpecRoundTrip: an export run, then a skip-mode restore of
   the snapshot it wrote, against the same remote.  index.json and README.md
   of the export are the flag manifest; the snapshot directory the restore
   reads holds the entity files of the export. *)

NameIndex == <<"i", "n", "d", "e", "x">>

NameHidden == <<".", "h">>

\* workflows with a name and an id: two plain names, the name of the
\* manifest file, a name that begins with a dot; one of them archived
RoundTripShapes ==
    [name : {<<"a">>, <<"b">>, NameIndex, NameHidden}, isArchived : {FALSE},
     tags : {<<>>, <<TagColon>>}, shared : {<<PersonalProject>>}, nodes : {"n1"}]
    \cup
    [name : {<<"a">>}, isArchived : {TRUE}, tags : {<<>>},
     shared : {<<PersonalProject>>}, nodes : {"n1"}]

InitRoundTrip ==
    /\ tool = "none"
    /\ pc = "idle"
    /\ remote \in Remotes(RoundTripShapes, MaxWorkflows)
    /\ pageCap = 1
    /\ requests = <<>>
    /\ responses = <<>>
    /\ listFailed = FALSE
    /\ all_workflows = <<>>
    /\ existing = EmptyMap
    /\ ExportIdle
    /\ RestoreIdle
    /\ failures = 0
    /\ SanitizeIdle

\* the restore script is started, in skip mode, on the snapshot directory
\* the export run has just written
RestoreExported ==
    /\ tool \in {"download", "onefile"}
    /\ RestoreFrom("done", {"skip"}, {FALSE})

NextRoundTrip == NextExport \/ RestoreExported \/ RestoreStep

SpecRoundTrip == InitRoundTrip /\ [][NextRoundTrip]_vars

\* the export and the restore after it ran without a failed request or write
AllSucceeded == failures = 0 /\ ~listFailed

\* C23 (as stated): when every entity of the remote has a name and an id and
\* every request succeeds, the skip-mode restore of the snapshot an export
\* tool wrote, against the unchanged remote, gives the outcome skipped/exists
\* for every snapshot file and issues no POST and no PUT.
C23_ExportThenSkipRestoreIsNoOp ==
    (tool = "restore" /\ pc = "done" /\ AllSucceeded) =>
        /\ posts = <<>>
        /\ puts = <<>>
        /\ remote = remote0
        /\ \A path \in DOMAIN files :
              \E k \in 1..Len(rstats.results) :
                 /\ workflow_files[k] = path
                 /\ rstats.results[k].status = "skipped"
                 /\ rstats.results[k].action = "exists"

=============================================================================
